---- MODULE Spec2Model ----
(***************************************************************************)
(* Identity manager of the document explorer (src/src/DocExplorer/         *)
(* account.ts): the Account class (logIn, signUp, logOut,                  *)
(* loginWithAtProto, connectToPSS, the cross-tab storage listener),        *)
(* getAccount / createAccount, and the account token codec.                *)
(*                                                                         *)
(* Browser tabs are the processes.  They share localStorage (one key) and  *)
(* the document store.  Every `await` of the source is a suspension point: *)
(* the code before it and the code after it are different actions.         *)
(***************************************************************************)
EXTENDS Integers, Sequences, FiniteSets, TLC

\* ---------------------------------------------------------------- bounds
\* Longest label (the name typed in the form) the token codec is given.
MaxLabelLen == 2
\* Longest text typed after the prefix into the log-in field.
MaxTokenLen == 4
\* Number of identity documents the store can hold (repo.create is unbounded).
MaxIds == 3
\* Number of user-initiated logIn, signUp and logOut calls.
MaxOps == 2
\* Number of loginWithAtProto calls.
MaxLinks == 1
\* Longest queue of undelivered storage events / suspended logIn calls per tab.
MaxPending == 2
\* Number of getAccount calls made in one tab.
MaxCalls == 3

\* ---------------------------------------------------------------- values
Tabs == 1..2
Ids == 1..MaxIds
\* "no address": localStorage.getItem returning null, an undefined contactUrl.
NoUrl == 0
\* A well-formed address whose document never becomes available.
MissingUrl == MaxIds + 1
\* A string that is not a valid automerge URL (repo.find throws on it).
MalformedUrl == MaxIds + 2
Urls == Ids \cup {MissingUrl, MalformedUrl}

\* An absent optional field (undefined in the source).
None == "none"
Names == {"Ada", "Bob"}
\* avatarUrl values: uploadFile returns the address of a new file document.
AvatarUrls == {"avatar1"}
\* The external identity the provider authenticates (session.did).
Dids == {"did:x"}
\* Profiles the provider can return (profile.data); displayName may be empty.
Profiles ==
    { [displayName |-> dn, handle |-> "x.bsky", avatar |-> "xav"] : dn \in {"", "Xena"} }
\* An absent atprotoProfile.
NoProfile == [displayName |-> None, handle |-> None, avatar |-> None]
\* Tokens the sync server can issue (data.token).
Tokens == {"jwt1", "jwt2"}

\* AccountDoc (account.ts:22-29).  exists = FALSE: never created.
NoAccountDoc ==
    [exists |-> FALSE, contactUrl |-> NoUrl, rootFolderUrl |-> NoUrl,
     atprotoDid |-> None, atprotoHandle |-> None, pssJwt |-> None]
\* What repo.create() yields before any change is applied to it.
EmptyAccountDoc == [NoAccountDoc EXCEPT !.exists = TRUE]
\* ContactDoc (account.ts:31-46).  type "absent": never created.
NoContactDoc ==
    [type |-> "absent", name |-> None, avatarUrl |-> None, atprotoProfile |-> NoProfile]
\* A root folder document (account.ts:382, 388-390) that has not been created.
NoFolderDoc == [exists |-> FALSE, docs |-> <<>>]
\* `let CURRENT_ACCOUNT` (account.ts:332) before any getAccount call, with
\* what the calls of the tab have done: promise is "unset", "pending" or
\* "resolved"; loading counts the promise executors suspended on the identity
\* document at url; instance numbers the Account the promise resolved with;
\* waiting counts the calls suspended on the promise; built, created and
\* writes count the Account instances constructed, the identities created and
\* the pointer writes; returned holds the instances handed to callers.
NoCurrent ==
    [promise |-> "unset", loading |-> 0, url |-> NoUrl, instance |-> 0,
     waiting |-> 0, calls |-> 0, built |-> 0, created |-> 0, writes |-> 0,
     returned |-> {}]

VARIABLES
    pointer,        \* localStorage[ACCOUNT_URL_STORAGE_KEY]
    idDoc,          \* document store: identity (account) documents by address
    contactDoc,     \* document store: contact documents by address
    folderDoc,      \* document store: root folder documents by address
    fresh,          \* fresh[i] = t: only tab t sees i's content yet; 0: everyone
    proc,           \* per tab: "none" before getAccount, "ready" after
    handle,         \* per tab: Account.#handle (address)
    contactHandle,  \* per tab: Account.#contactHandle (address)
    emitted,        \* per tab: what the last emit("change") could observe
    inbox,          \* per tab: storage events dispatched to it, not yet handled
    logins,         \* per tab: logIn calls suspended at `await accountHandle.doc()`
    watchers,       \* per tab: addresses with a registered "change" callback
    notify,         \* per tab: addresses whose "change" event is due
    signups,        \* per tab: signUp calls suspended at `await uploadFile`
    session,        \* per tab: Account.#session (its did) or None
    link,           \* per tab: loginWithAtProto / connectToPSS frame
    linkResult,     \* per tab: outcome of loginWithAtProto seen by its caller
    negotiated,     \* per tab: record of the last connectToPSS run
    adapters,       \* per tab: tokens of the network adapters added to the repo
    logInFail,      \* per tab: record of the last rejected logIn
    signUpLog,      \* per tab: record of the last completed signUp
    ops,            \* number of logIn, signUp and logOut calls made so far
    links,          \* number of loginWithAtProto calls made so far
    picker,         \* AccountPicker: the form's name, the token shown, the token pasted
    device2,        \* a second device: its own localStorage key and its Account
    CURRENT_ACCOUNT \* per tab: the module's CURRENT_ACCOUNT promise and its getAccount calls

vars ==
    <<pointer, idDoc, contactDoc, folderDoc, fresh, proc, handle, contactHandle, emitted,
      inbox, logins, watchers, notify, signups, session, link, linkResult,
      negotiated, adapters, logInFail, signUpLog, ops, links, picker, device2, CURRENT_ACCOUNT>>

\* ---------------------------------------------------------------- store
\* The addresses repo.create() has not handed out yet.
FreeIds == { i \in Ids : ~idDoc[i].exists }
NewId == CHOOSE i \in FreeIds : \A j \in FreeIds : i <= j

\* What `await repo.find(u).doc()` gives tab t once it resolves: the document,
\* or the still-empty document while its first change has not reached the tab.
View(w, t, u) ==
    IF u \in Ids /\ w.idDoc[u].exists
    THEN IF w.fresh[u] \in {0, t} THEN w.idDoc[u] ELSE EmptyAccountDoc
    ELSE NoAccountDoc

\* The part of the state the synchronous code of Account reads and writes.
Cur ==
    [pointer |-> pointer, idDoc |-> idDoc, contactDoc |-> contactDoc,
     folderDoc |-> folderDoc,
     fresh |-> fresh, handle |-> handle, contactHandle |-> contactHandle,
     emitted |-> emitted, inbox |-> inbox, logins |-> logins,
     notify |-> notify, logInFail |-> logInFail]

Commit(w) ==
    /\ \A t \in Tabs : Len(w.inbox[t]) <= MaxPending /\ Len(w.logins[t]) <= MaxPending
    /\ pointer' = w.pointer
    /\ idDoc' = w.idDoc
    /\ contactDoc' = w.contactDoc
    /\ folderDoc' = w.folderDoc
    /\ fresh' = w.fresh
    /\ handle' = w.handle
    /\ contactHandle' = w.contactHandle
    /\ emitted' = w.emitted
    /\ inbox' = w.inbox
    /\ logins' = w.logins
    /\ notify' = w.notify
    /\ logInFail' = w.logInFail

\* localStorage.setItem(ACCOUNT_URL_STORAGE_KEY, u) by tab t.  The browser
\* dispatches a "storage" event to every other tab with a listener, and only
\* when the stored value changes.
setItem(w, t, u) ==
    [w EXCEPT
       !.pointer = u,
       !.inbox = [s \in Tabs |->
                    IF s # t /\ proc[s] = "ready" /\ w.pointer # u
                    THEN Append(w.inbox[s], u)
                    ELSE w.inbox[s]]]

\* handle.change(...) on identity document i: every tab that registered a
\* "change" callback on i will have it called.
changed(w, i) ==
    [w EXCEPT
       !.notify = [s \in Tabs |->
                     IF \E k \in 1..Len(watchers[s]) : watchers[s][k] = i
                     THEN w.notify[s] \cup {i}
                     ELSE w.notify[s]]]

\* this.emit("change"): what a subscriber called back now can observe.
Snapshot(w, t, by, target) ==
    [by |-> by, target |-> target, ptr |-> w.pointer,
     handle |-> w.handle[t], contact |-> w.contactHandle[t]]
NoEmit == [by |-> "none", target |-> NoUrl, ptr |-> NoUrl, handle |-> NoUrl, contact |-> NoUrl]
emit(w, t, by, target) ==
    [w EXCEPT !.emitted[t] = Snapshot(w, t, by, target)]

\* createAccount (account.ts:373-398) called by tab t: three repo.create()
\* and three changes, all synchronous in t.  Other tabs first see the empty
\* identity document (fresh[i] = t) and its content later (SyncArrive).
createAccount(w, t, i) ==
    [w EXCEPT
       !.idDoc[i] = [EmptyAccountDoc EXCEPT !.contactUrl = i, !.rootFolderUrl = i],
       !.contactDoc[i] = [NoContactDoc EXCEPT !.type = "anonymous"],
       !.folderDoc[i] = [exists |-> TRUE, docs |-> <<>>],
       !.fresh[i] = t]

\* The check left out: any resolved document counts as initialised.
contactUrlLoaded_always(doc) == TRUE

\* The check inverted.
contactUrlLoaded_inverted(doc) == doc.contactUrl = NoUrl

\* `if (accountDoc.contactUrl)` / `if (doc.contactUrl)` of the storage
\* listener (account.ts:83 and 90).
contactUrlLoaded(doc) == doc.contactUrl # NoUrl

\* A logOut that reuses the contact document of the identity it leaves for
\* the new identity, reset to anonymous.
logOut_reusesContact(w, t, i) ==
    LET c == w.contactHandle[t]
        w1 == [createAccount(w, t, i) EXCEPT
                  !.idDoc[i].contactUrl = c,
                  !.contactDoc[c] = [NoContactDoc EXCEPT !.type = "anonymous"]]
        w2 == setItem(w1, t, i)
        w3 == [w2 EXCEPT !.handle[t] = i, !.contactHandle[t] = c]
    IN  emit(w3, t, "logOut", i)

\* A logOut that also wipes the contact it leaves.
logOut_wipesPrevious(w, t, i) ==
    LET w0 == [w EXCEPT !.contactDoc[w.contactHandle[t]] =
                            [NoContactDoc EXCEPT !.type = "anonymous"]]
        w1 == createAccount(w0, t, i)
        w2 == setItem(w1, t, i)
        w3 == [w2 EXCEPT !.handle[t] = i, !.contactHandle[t] = i]
    IN  emit(w3, t, "logOut", i)

\* A logOut that forgets to persist the address of the new identity.
logOut_notPersisted(w, t, i) ==
    LET w1 == createAccount(w, t, i)
        w3 == [w1 EXCEPT !.handle[t] = i, !.contactHandle[t] = i]
    IN  emit(w3, t, "logOut", i)

\* Account.logOut (account.ts:163-172): no await, so it runs to completion.
logOut(w, t, i) ==
    LET w1 == createAccount(w, t, i)
        w2 == setItem(w1, t, i)
        w3 == [w2 EXCEPT !.handle[t] = i, !.contactHandle[t] = i]
    IN  emit(w3, t, "logOut", i)

\* The address of the last logIn call of a tab that rejected, or NoUrl.
NoFail == NoUrl

\* Account.logIn (account.ts:134-139), up to its await: the pointer is
\* written first; repo.find throws on a malformed address (the returned
\* promise is rejected); otherwise the call suspends on accountHandle.doc().
logIn(w, t, u, src) ==
    LET w1 == setItem(w, t, u)
    IN  IF u = MalformedUrl
        THEN [w1 EXCEPT !.logInFail[t] = u]
        ELSE [w1 EXCEPT !.logins[t] = Append(@, [url |-> u, src |-> src])]

\* A logIn that replaces the identity handle and keeps the old contact handle.
logInResume_keepsContact(w, t, k) ==
    LET task == w.logins[t][k]
        accountDoc == View(w, t, task.url)
        w1 == [w EXCEPT !.logins[t] = SubSeq(@, 1, k - 1) \o SubSeq(@, k + 1, Len(@))]
    IN  IF accountDoc.contactUrl = NoUrl
        THEN [w1 EXCEPT !.logInFail[t] = task.url]
        ELSE emit([w1 EXCEPT !.handle[t] = task.url], t, task.src, task.url)

\* A logIn that takes the contact from the identity the pointer names when
\* the call resumes, instead of from the document it resolved.
logInResume_contactOfPointer(w, t, k) ==
    LET task == w.logins[t][k]
        accountDoc == View(w, t, task.url)
        w1 == [w EXCEPT !.logins[t] = SubSeq(@, 1, k - 1) \o SubSeq(@, k + 1, Len(@))]
    IN  IF accountDoc.contactUrl = NoUrl
        THEN [w1 EXCEPT !.logInFail[t] = task.url]
        ELSE emit([w1 EXCEPT !.contactHandle[t] =
                                 IF w.pointer \in Ids /\ w.idDoc[w.pointer].exists
                                 THEN w.idDoc[w.pointer].contactUrl
                                 ELSE accountDoc.contactUrl,
                             !.handle[t] = task.url],
                  t, task.src, task.url)

\* Account.logIn (account.ts:139-145), after its await, for suspended call k.
\* accountDoc.contactUrl undefined makes repo.find throw: the call rejects.
logInResume(w, t, k) ==
    LET task == w.logins[t][k]
        accountDoc == View(w, t, task.url)
        w1 == [w EXCEPT !.logins[t] = SubSeq(@, 1, k - 1) \o SubSeq(@, k + 1, Len(@))]
    IN  IF accountDoc.contactUrl = NoUrl
        THEN [w1 EXCEPT !.logInFail[t] = task.url]
        ELSE emit([w1 EXCEPT !.contactHandle[t] = accountDoc.contactUrl,
                             !.handle[t] = task.url],
                  t, task.src, task.url)

\* ---------------------------------------------------------------- frames
\* The frame of loginWithAtProto / connectToPSS: where it is suspended (pc)
\* and the locals that live across its awaits.
NoData == [rootDocUrl |-> NoUrl, token |-> None]
IdleLink ==
    [pc |-> "idle", viaLink |-> FALSE, sessionDid |-> None, current |-> NoUrl,
     data |-> NoData, accountDoc |-> NoAccountDoc, contactDoc |-> NoContactDoc]
\* What a connectToPSS run did: its branch, the identity it started from, the
\* root the server named, the documents it read and the identity its
\* intermediate logOut created.
NoNegotiation ==
    [outcome |-> "none", from |-> NoUrl, root |-> NoUrl, token |-> None,
     accountDoc |-> NoAccountDoc, contactDoc |-> NoContactDoc, temp |-> NoUrl,
     thrown |-> FALSE]
\* What a signUp call did: the contact it wrote, that contact before and
\* after, the contact's type when the call was made, and the arguments.
NoSignUp ==
    [contact |-> NoUrl, typeAtCall |-> "absent", before |-> NoContactDoc,
     after |-> NoContactDoc, name |-> None, avatarUrl |-> None, outcome |-> "none"]

\* ---------------------------------------------------------------- tokens
\* A string is the sequence of its characters.
ACCOUNT_PREFIX == <<"a", "c", "c", "o", "u", "n", "t", ":">>
AUTOMERGE_PREFIX == <<"a", "u", "t", "o", "m", "e", "r", "g", "e", ":">>
\* What is no string: undefined, null, and a thrown URIError.
Undefined == <<"undefined">>
Null == <<"null">>
URIError == <<"URIError">>

\* The characters a name is typed from: a letter, the two characters the
\* token format itself uses, a character outside ASCII (U+00E9) and a lone
\* surrogate code unit (U+D800), which a JavaScript string can hold.
LabelChars == {"a", "/", "%", "U+00E9", "U+D800"}
SeqsUpTo(S, n) == UNION { [1..k -> S] : k \in 0..n }
Labels == SeqsUpTo(LabelChars, MaxLabelLen)

\* The strings typed into the log-in field: nothing, "account:" or
\* "automerge:", followed by a few characters among a letter, the separator,
\* the escape character and the characters of two documentIds.
TokenChars == {"a", "/", "%", "D", "1", "2"}
TypedTokens ==
    { prefix \o body : prefix \in {<<>>, ACCOUNT_PREFIX, AUTOMERGE_PREFIX},
                       body \in SeqsUpTo(TokenChars, MaxTokenLen) }

DocumentId(i) == <<"D", ToString(i)>>
\* The address of identity i.
UrlOf(i) == AUTOMERGE_PREFIX \o DocumentId(i)

StartsWith(s, prefix) ==
    /\ Len(s) >= Len(prefix)
    /\ SubSeq(s, 1, Len(prefix)) = prefix
Drop(s, n) == SubSeq(s, n + 1, Len(s))

\* encodeURIComponent of one character: unreserved characters stay, every
\* other one becomes the %XX of its UTF-8 bytes.
encodeChar(c) ==
    CASE c = "/" -> <<"%", "2", "F">>
      [] c = "%" -> <<"%", "2", "5">>
      [] c = "U+00E9" -> <<"%", "C", "3", "%", "A", "9">>
      [] OTHER -> <<c>>

RECURSIVE encodeAll(_)
encodeAll(s) == IF s = <<>> THEN <<>> ELSE encodeChar(Head(s)) \o encodeAll(Tail(s))

\* encodeURIComponent: throws URIError on a lone surrogate.
encodeURIComponent(s) ==
    IF \E k \in 1..Len(s) : s[k] = "U+D800" THEN URIError ELSE encodeAll(s)

\* parseAutomergeUrl(url).documentId
parseAutomergeUrl(url) == Drop(url, Len(AUTOMERGE_PREFIX))

\* isValidAutomergeUrl: the automerge: scheme followed by a documentId that
\* decodes as base58check; the documentIds of the model are the valid ones.
isValidAutomergeUrl(url) ==
    /\ StartsWith(url, AUTOMERGE_PREFIX)
    /\ \E i \in Ids : Drop(url, Len(AUTOMERGE_PREFIX)) = DocumentId(i)

\* automergeUrlToAccountToken (account.ts:485-491).
automergeUrlToAccountToken(url, name) ==
    IF encodeURIComponent(name) = URIError
    THEN URIError
    ELSE ACCOUNT_PREFIX \o encodeURIComponent(name) \o <<"/">> \o parseAutomergeUrl(url)

\* The match of /^account:([^/]*)\/(.+)$/, which lets the label be empty.
tokenMatch_emptyLabel(token) ==
    IF ~StartsWith(token, ACCOUNT_PREFIX)
    THEN Null
    ELSE LET rest == Drop(token, Len(ACCOUNT_PREFIX))
             slashes == { k \in 1..Len(rest) : rest[k] = "/" }
         IN  IF slashes = {}
             THEN Null
             ELSE LET p == CHOOSE k \in slashes : \A j \in slashes : k <= j
                  IN  IF p = Len(rest)
                      THEN Null
                      ELSE <<SubSeq(rest, 1, p - 1), Drop(rest, p)>>

\* token.match(/^account:([^/]+)\/(.+)$/): the groups, or Null.  Group 1 is
\* the longest run without "/" after the prefix; it has to be non-empty and
\* followed by "/" and by at least one more character.
tokenMatch(token) ==
    IF ~StartsWith(token, ACCOUNT_PREFIX)
    THEN Null
    ELSE LET rest == Drop(token, Len(ACCOUNT_PREFIX))
             slashes == { k \in 1..Len(rest) : rest[k] = "/" }
         IN  IF slashes = {}
             THEN Null
             ELSE LET p == CHOOSE k \in slashes : \A j \in slashes : k <= j
                  IN  IF p = 1 \/ p = Len(rest)
                      THEN Null
                      ELSE <<SubSeq(rest, 1, p - 1), Drop(rest, p)>>

\* accountTokenToAutomergeUrl (account.ts:494-507).
accountTokenToAutomergeUrl(token) ==
    LET match == tokenMatch(token)
    IN  IF match = Null
        THEN Undefined
        ELSE LET url == AUTOMERGE_PREFIX \o match[2]
             IN  IF isValidAutomergeUrl(url) THEN url ELSE Undefined

\* The picker before anything is shown or pasted.
NoPicker ==
    [account |-> NoUrl, name |-> <<>>, currentAccountToken |-> Null,
     accountTokenToLogin |-> <<>>, accountAutomergeUrlToLogin |-> Undefined]

\* ---------------------------------------------------------------- devices
\* A second device runs the same code in one tab of its own.  It has its own
\* localStorage, and shares with the first device only the documents, once
\* the document store has delivered them.
Device2 == Cardinality(Tabs) + 1
\* The tab that stands for the first device where one tab is enough.
Device1 == CHOOSE t \in Tabs : \A s \in Tabs : t <= s
NoDevice ==
    [proc |-> "none", pointer |-> NoUrl, handle |-> NoUrl, contactHandle |-> NoUrl,
     emitted |-> NoEmit, logins |-> <<>>, logInFail |-> NoFail]

\* f with the value of the second device added to those of the tabs.
WithDevice2(f, v) == [s \in Tabs \cup {Device2} |-> IF s = Device2 THEN v ELSE f[s]]

\* What the synchronous code of the second device's Account reads and writes:
\* the shared documents, and its own pointer and fields.
Cur2 ==
    [Cur EXCEPT !.pointer = device2.pointer,
                !.handle = WithDevice2(handle, device2.handle),
                !.contactHandle = WithDevice2(contactHandle, device2.contactHandle),
                !.emitted = WithDevice2(emitted, device2.emitted),
                !.logins = WithDevice2(logins, device2.logins),
                !.logInFail = WithDevice2(logInFail, device2.logInFail)]

\* The second device's writes: documents go to the store, the rest stays on
\* the device.  Its setItem dispatches no storage event to the first device.
Commit2(w, p) ==
    /\ Len(w.logins[Device2]) <= MaxPending
    /\ idDoc' = w.idDoc
    /\ contactDoc' = w.contactDoc
    /\ folderDoc' = w.folderDoc
    /\ fresh' = w.fresh
    /\ notify' = w.notify
    /\ device2' = [device2 EXCEPT
           !.proc = p,
           !.pointer = w.pointer,
           !.handle = w.handle[Device2],
           !.contactHandle = w.contactHandle[Device2],
           !.emitted = w.emitted[Device2],
           !.logins = w.logins[Device2],
           !.logInFail = w.logInFail[Device2]]
    /\ UNCHANGED <<pointer, handle, contactHandle, emitted, inbox, logins, logInFail>>

InitStore ==
    /\ pointer = NoUrl
    \* One identity created earlier on another device and already synced here:
    \* a Registered contact; the others have not been created.
    /\ idDoc = [i \in Ids |->
                  IF i = 1
                  THEN [EmptyAccountDoc EXCEPT !.contactUrl = 1, !.rootFolderUrl = 1]
                  ELSE NoAccountDoc]
    /\ contactDoc = [i \in Ids |->
                  IF i = 1
                  THEN [NoContactDoc EXCEPT !.type = "registered", !.name = "Bob"]
                  ELSE NoContactDoc]
    /\ folderDoc = [i \in Ids |->
                  IF i = 1 THEN [exists |-> TRUE, docs |-> <<>>] ELSE NoFolderDoc]
    /\ fresh = [i \in Ids |-> 0]
    /\ proc = [t \in Tabs |-> "none"]
    /\ handle = [t \in Tabs |-> NoUrl]
    /\ contactHandle = [t \in Tabs |-> NoUrl]
    /\ emitted = [t \in Tabs |-> NoEmit]
    /\ inbox = [t \in Tabs |-> <<>>]
    /\ logins = [t \in Tabs |-> <<>>]
    /\ watchers = [t \in Tabs |-> <<>>]
    /\ notify = [t \in Tabs |-> {}]
    /\ signups = [t \in Tabs |-> <<>>]
    /\ session = [t \in Tabs |-> None]
    /\ link = [t \in Tabs |-> IdleLink]
    /\ linkResult = [t \in Tabs |-> "none"]
    /\ negotiated = [t \in Tabs |-> NoNegotiation]
    /\ adapters = [t \in Tabs |-> {}]
    /\ logInFail = [t \in Tabs |-> NoFail]
    /\ signUpLog = [t \in Tabs |-> NoSignUp]
    /\ ops = 0
    /\ links = 0

Init ==
    /\ InitStore
    /\ picker = NoPicker
    /\ device2 = NoDevice
    /\ CURRENT_ACCOUNT = [t \in Tabs |-> NoCurrent]

\* The account picker open on identity i with any name typed in its form.
InitPicker ==
    /\ InitStore
    /\ \E i \in Ids, name \in Labels : picker = [NoPicker EXCEPT !.account = i, !.name = name]
    /\ device2 = NoDevice
    /\ CURRENT_ACCOUNT = [t \in Tabs |-> NoCurrent]

\* The variables Commit does not set.
restUnchanged ==
    UNCHANGED <<proc, watchers, signups, session, link, linkResult, negotiated,
                adapters, signUpLog>>

\* A getAccount that does not look at the stored pointer.
GetAccount_alwaysCreates(t) ==
    /\ proc[t] = "none"
    /\ FreeIds # {}
    /\ proc' = [proc EXCEPT ![t] = "ready"]
    /\ LET w1 == createAccount(Cur, t, NewId)
           w2 == setItem(w1, t, NewId)
       IN  Commit([w2 EXCEPT !.handle[t] = NewId, !.contactHandle[t] = NewId])
    /\ UNCHANGED <<watchers, signups, session, link, linkResult, negotiated,
                   adapters, signUpLog, ops, links, picker, device2, CURRENT_ACCOUNT>>

\* getAccount (account.ts:334-371), first call in tab t.  With a stored
\* pointer it waits for that identity document and its contactUrl; without
\* one it creates an account and stores its address.
GetAccount(t) ==
    /\ proc[t] = "none"
    /\ IF pointer # NoUrl
       THEN /\ View(Cur, t, pointer).exists
            /\ IF View(Cur, t, pointer).contactUrl = NoUrl
               THEN \* repo.find(undefined) throws inside the promise executor:
                    \* CURRENT_ACCOUNT never resolves and no Account is built.
                    /\ proc' = [proc EXCEPT ![t] = "stuck"]
                    /\ Commit(Cur)
               ELSE /\ proc' = [proc EXCEPT ![t] = "ready"]
                    /\ Commit([Cur EXCEPT !.handle[t] = pointer,
                                  !.contactHandle[t] = View(Cur, t, pointer).contactUrl])
       ELSE /\ FreeIds # {}
            /\ proc' = [proc EXCEPT ![t] = "ready"]
            /\ LET w1 == createAccount(Cur, t, NewId)
                   w2 == setItem(w1, t, NewId)
               IN  Commit([w2 EXCEPT !.handle[t] = NewId, !.contactHandle[t] = NewId])
    /\ UNCHANGED <<watchers, signups, session, link, linkResult, negotiated,
                   adapters, signUpLog, ops, links, picker, device2, CURRENT_ACCOUNT>>

\* A getAccount that never finds CURRENT_ACCOUNT set.
cached_never(g) == FALSE

\* `if (CURRENT_ACCOUNT)` (account.ts:339).
cached(g) == g.promise # "unset"

\* One more getAccount(repo) call in tab t (useCurrentAccount's effect,
\* account.ts:414-416, or any other caller), up to its first await or its
\* return (account.ts:334-371).  GetAccount above is the lone first call taken
\* from call to resolution; here the calls of a tab overlap.
\*  - CURRENT_ACCOUNT set: the call suspends on `await CURRENT_ACCOUNT`.
\*  - a stored pointer: CURRENT_ACCOUNT becomes a new promise whose executor
\*    suspends on the identity document, and the call returns that promise.
\*  - otherwise an account is created, its address stored, an Account built
\*    and CURRENT_ACCOUNT resolved with it.
GetAccountCall(t) ==
    LET g == CURRENT_ACCOUNT[t]
    IN  /\ g.calls < MaxCalls
        /\ IF cached(g)
           THEN /\ CURRENT_ACCOUNT' = [CURRENT_ACCOUNT EXCEPT ![t] =
                       [g EXCEPT !.calls = @ + 1, !.waiting = @ + 1]]
                /\ Commit(Cur)
                /\ UNCHANGED proc
           ELSE IF pointer # NoUrl
           THEN /\ CURRENT_ACCOUNT' = [CURRENT_ACCOUNT EXCEPT ![t] =
                       [g EXCEPT !.calls = @ + 1, !.waiting = @ + 1,
                                 !.promise = "pending", !.loading = @ + 1,
                                 !.url = pointer]]
                /\ Commit(Cur)
                /\ UNCHANGED proc
           ELSE /\ FreeIds # {}
                /\ CURRENT_ACCOUNT' = [CURRENT_ACCOUNT EXCEPT ![t] =
                       [g EXCEPT !.calls = @ + 1,
                                 !.promise = "resolved", !.instance = g.built + 1,
                                 !.built = @ + 1, !.created = @ + 1, !.writes = @ + 1,
                                 !.returned = @ \cup {g.built + 1}]]
                /\ proc' = [proc EXCEPT ![t] = "ready"]
                /\ LET w1 == createAccount(Cur, t, NewId)
                       w2 == setItem(w1, t, NewId)
                   IN  Commit([w2 EXCEPT !.handle[t] = NewId, !.contactHandle[t] = NewId])
        /\ UNCHANGED <<watchers, signups, session, link, linkResult, negotiated,
                       adapters, signUpLog, ops, links, picker, device2>>

\* `await accountHandle.doc()` of a promise executor resolves
\* (account.ts:353-358).  Without contactUrl repo.find(undefined) throws
\* inside the executor and the promise stays pending for ever; otherwise an
\* Account is built on the two handles and the promise resolves with it.
GetAccountLoaded(t) ==
    LET g == CURRENT_ACCOUNT[t]
        accountDoc == View(Cur, t, g.url)
    IN  /\ g.loading > 0
        /\ accountDoc.exists
        /\ IF accountDoc.contactUrl = NoUrl
           THEN /\ CURRENT_ACCOUNT' = [CURRENT_ACCOUNT EXCEPT ![t] =
                       [g EXCEPT !.loading = @ - 1]]
                /\ proc' = [proc EXCEPT ![t] = IF @ = "none" THEN "stuck" ELSE @]
                /\ Commit(Cur)
           ELSE /\ CURRENT_ACCOUNT' = [CURRENT_ACCOUNT EXCEPT ![t] =
                       [g EXCEPT !.loading = @ - 1, !.promise = "resolved",
                                 !.instance = g.built + 1, !.built = @ + 1]]
                /\ proc' = [proc EXCEPT ![t] = "ready"]
                /\ Commit([Cur EXCEPT !.handle[t] = g.url,
                              !.contactHandle[t] = accountDoc.contactUrl])
        /\ UNCHANGED <<watchers, signups, session, link, linkResult, negotiated,
                       adapters, signUpLog, ops, links, picker, device2>>

\* A call suspended on the resolved promise resumes and returns the Account
\* the promise holds (account.ts:340-343 and 361).
GetAccountReturn(t) ==
    LET g == CURRENT_ACCOUNT[t]
    IN  /\ g.waiting > 0
        /\ g.promise = "resolved"
        /\ CURRENT_ACCOUNT' = [CURRENT_ACCOUNT EXCEPT ![t] =
               [g EXCEPT !.waiting = @ - 1, !.returned = @ \cup {g.instance}]]
        /\ Commit(Cur)
        /\ UNCHANGED <<proc, watchers, signups, session, link, linkResult, negotiated,
                       adapters, signUpLog, ops, links, picker, device2>>

\* The document store delivers the content of identity document i to the
\* tabs that did not create it; their "change" callbacks on i become due.
SyncArrive(i) ==
    /\ idDoc[i].exists
    /\ fresh[i] # 0
    /\ Commit(changed([Cur EXCEPT !.fresh[i] = 0], i))
    /\ restUnchanged
    /\ UNCHANGED <<ops, links, picker, device2, CURRENT_ACCOUNT>>

\* A caller (the account picker's onSubmit, AccountPicker.tsx:96-98) calls
\* account.logIn(u).
LogIn(t, u) ==
    /\ proc[t] = "ready"
    /\ ops < MaxOps
    /\ u \in Ids => idDoc[u].exists
    /\ Commit(logIn(Cur, t, u, "ui"))
    /\ ops' = ops + 1
    /\ UNCHANGED <<links, picker, device2, CURRENT_ACCOUNT>>
    /\ restUnchanged

\* `await accountHandle.doc()` of suspended logIn call k resolves.
LogInResume(t, k) ==
    /\ k \in 1..Len(logins[t])
    /\ View(Cur, t, logins[t][k].url).exists
    /\ Commit(logInResume(Cur, t, k))
    /\ restUnchanged
    /\ UNCHANGED <<ops, links, picker, device2, CURRENT_ACCOUNT>>

\* The document of suspended logIn call k is unavailable: doc() yields
\* undefined and reading accountDoc.contactUrl throws, the call rejects.
LogInUnavailable(t, k) ==
    /\ k \in 1..Len(logins[t])
    /\ logins[t][k].url = MissingUrl
    /\ Commit(logInResume(Cur, t, k))
    /\ restUnchanged
    /\ UNCHANGED <<ops, links, picker, device2, CURRENT_ACCOUNT>>

\* A caller (onLogout, AccountPicker.tsx:114-116) calls account.logOut().
LogOut(t) ==
    /\ proc[t] = "ready"
    /\ ops < MaxOps
    /\ FreeIds # {}
    /\ Commit(logOut(Cur, t, NewId))
    /\ ops' = ops + 1
    /\ UNCHANGED <<links, picker, device2, CURRENT_ACCOUNT>>
    /\ restUnchanged

\* The "storage" listener of tab t (account.ts:76-95) for the k-th pending
\* event, from its dispatch to the end of the handler: repo.find, the await
\* of accountHandle.doc(), then either logIn at once or a "change" callback
\* registered on the identity document.  A malformed or unavailable address
\* makes the handler throw.
StorageListener(t, k) ==
    /\ k \in 1..Len(inbox[t])
    /\ LET newAccountUrl == inbox[t][k]
           accountDoc == View(Cur, t, newAccountUrl)
           w1 == [Cur EXCEPT !.inbox[t] = SubSeq(@, 1, k - 1) \o SubSeq(@, k + 1, Len(@))]
       IN  IF ~accountDoc.exists
           THEN Commit(w1) /\ UNCHANGED watchers
           ELSE IF contactUrlLoaded(accountDoc)
           THEN Commit(logIn(w1, t, newAccountUrl, "storage")) /\ UNCHANGED watchers
           ELSE /\ Len(watchers[t]) < MaxPending
                /\ Commit(w1)
                /\ watchers' = [watchers EXCEPT ![t] = Append(@, newAccountUrl)]
    /\ UNCHANGED <<proc, signups, session, link, linkResult, negotiated, adapters,
                   signUpLog, ops, links, picker, device2, CURRENT_ACCOUNT>>

\* The callbacks registered at account.ts:89-93, called n times in a row.
RECURSIVE watcherCalls(_, _, _, _)
watcherCalls(w, t, u, n) ==
    IF n = 0 THEN w ELSE watcherCalls(logIn(w, t, u, "watcher"), t, u, n - 1)

\* Identity document i emits "change" in tab t: every callback registered on
\* it (they are never removed) runs, and calls logIn if contactUrl is set.
WatcherFire(t, i) ==
    /\ i \in notify[t]
    /\ LET n == Cardinality({k \in 1..Len(watchers[t]) : watchers[t][k] = i})
           w1 == [Cur EXCEPT !.notify[t] = @ \ {i}]
       IN  IF contactUrlLoaded(View(Cur, t, i))
           THEN Commit(watcherCalls(w1, t, i, n))
           ELSE Commit(w1)
    /\ restUnchanged
    /\ UNCHANGED <<ops, links, picker, device2, CURRENT_ACCOUNT>>

\* ---------------------------------------------------------------- signUp
\* A signUp that leaves an already registered contact as it is.
signUpChange_onlyAnonymous(doc, name, avatarUrl) ==
    IF doc.type = "registered"
    THEN doc
    ELSE [doc EXCEPT !.type = "registered",
                     !.name = name,
                     !.avatarUrl = IF avatarUrl # None THEN avatarUrl ELSE @]

\* The change callback of signUp (account.ts:153-160) on contact c.
signUpChange(doc, name, avatarUrl) ==
    [doc EXCEPT !.type = "registered",
                !.name = name,
                !.avatarUrl = IF avatarUrl # None THEN avatarUrl ELSE @]

signUpWrite(t, typeAtCall, name, avatarUrl) ==
    LET c == contactHandle[t]
        after == signUpChange(contactDoc[c], name, avatarUrl)
    IN  /\ contactDoc' = [contactDoc EXCEPT ![c] = after]
        /\ signUpLog' = [signUpLog EXCEPT ![t] =
               [contact |-> c, typeAtCall |-> typeAtCall, before |-> contactDoc[c],
                after |-> after, name |-> name, avatarUrl |-> avatarUrl,
                outcome |-> "ok"]]

\* A caller (onSubmit, AccountPicker.tsx:100-102) calls signUp({name, avatar}).
\* Without an avatar there is no await and the contact is changed at once;
\* with one the call suspends on uploadFile.
SignUp(t, name, withAvatar) ==
    /\ proc[t] = "ready"
    /\ ops < MaxOps
    /\ ops' = ops + 1
    /\ UNCHANGED <<links, picker, device2, CURRENT_ACCOUNT>>
    /\ IF withAvatar
       THEN /\ Len(signups[t]) < MaxPending
            /\ signups' = [signups EXCEPT ![t] =
                   Append(@, [name |-> name,
                              typeAtCall |-> contactDoc[contactHandle[t]].type])]
            /\ UNCHANGED <<contactDoc, signUpLog>>
       ELSE /\ signUpWrite(t, contactDoc[contactHandle[t]].type, name, None)
            /\ UNCHANGED signups
    /\ UNCHANGED <<pointer, folderDoc, idDoc, fresh, proc, handle, contactHandle, emitted,
                   inbox, logins, watchers, notify, session, link, linkResult,
                   negotiated, adapters, logInFail>>

\* uploadFile resolves for suspended signUp call k: the contact that is
\* active now (this.contactHandle) is changed.
SignUpUploaded(t, k, avatarUrl) ==
    /\ k \in 1..Len(signups[t])
    /\ signUpWrite(t, signups[t][k].typeAtCall, signups[t][k].name, avatarUrl)
    /\ signups' = [signups EXCEPT ![t] = SubSeq(@, 1, k - 1) \o SubSeq(@, k + 1, Len(@))]
    /\ UNCHANGED <<pointer, folderDoc, idDoc, fresh, proc, handle, contactHandle, emitted,
                   inbox, logins, watchers, notify, session, link, linkResult,
                   negotiated, adapters, logInFail, ops, links, picker, device2, CURRENT_ACCOUNT>>

\* uploadFile rejects: signUp rejects before its change.
SignUpUploadFailed(t, k) ==
    /\ k \in 1..Len(signups[t])
    /\ signups' = [signups EXCEPT ![t] = SubSeq(@, 1, k - 1) \o SubSeq(@, k + 1, Len(@))]
    /\ signUpLog' = [signUpLog EXCEPT ![t] =
           [NoSignUp EXCEPT !.typeAtCall = signups[t][k].typeAtCall,
                            !.name = signups[t][k].name, !.outcome = "rejected"]]
    /\ UNCHANGED <<pointer, folderDoc, idDoc, contactDoc, fresh, proc, handle, contactHandle,
                   emitted, inbox, logins, watchers, notify, session, link,
                   linkResult, negotiated, adapters, logInFail, ops, links, picker, device2, CURRENT_ACCOUNT>>

\* ---------------------------------------------------------------- linking
\* loginWithAtProto or connectToPSS returns or throws: the frame is dropped.
\* Only a call made through loginWithAtProto has a caller to report to.
linkEnds(t, result) ==
    /\ link' = [link EXCEPT ![t] = IdleLink]
    /\ linkResult' = [linkResult EXCEPT ![t] = IF link[t].viaLink THEN result ELSE @]

\* A caller (onSubmit, AccountPicker.tsx:104-110) calls loginWithAtProto:
\* account.ts:183-188, suspended on signInPopup.
LoginWithAtProto(t) ==
    /\ proc[t] = "ready"
    /\ link[t].pc = "idle"
    /\ links < MaxLinks
    /\ links' = links + 1
    /\ UNCHANGED <<picker, device2, CURRENT_ACCOUNT>>
    /\ UNCHANGED ops
    /\ link' = [link EXCEPT ![t] =
           [IdleLink EXCEPT !.pc = "signInPopup", !.viaLink = TRUE, !.current = handle[t]]]
    /\ linkResult' = [linkResult EXCEPT ![t] = "pending"]
    /\ Commit(Cur)
    /\ UNCHANGED <<proc, watchers, signups, session, negotiated, adapters, signUpLog>>

\* A linking that records the external identity as soon as the provider has
\* authenticated, before the profile is fetched.
SignInPopupOk_writesDid(t, did) ==
    /\ link[t].pc = "signInPopup"
    /\ session' = [session EXCEPT ![t] = did]
    /\ link' = [link EXCEPT ![t].pc = "getProfile", ![t].sessionDid = did]
    /\ Commit(changed([Cur EXCEPT !.idDoc[handle[t]].atprotoDid = did], handle[t]))
    /\ UNCHANGED <<proc, watchers, signups, linkResult, negotiated, adapters,
                   signUpLog, ops, links, picker, device2, CURRENT_ACCOUNT>>

\* signInPopup resolves (account.ts:188-194): the session is kept in memory
\* and the profile is requested.  (Line 190 assigns window.location.href the
\* automerge: address, which is no document or pointer state.)
SignInPopupOk(t, did) ==
    /\ link[t].pc = "signInPopup"
    /\ session' = [session EXCEPT ![t] = did]
    /\ link' = [link EXCEPT ![t].pc = "getProfile", ![t].sessionDid = did]
    /\ Commit(Cur)
    /\ UNCHANGED <<proc, watchers, signups, linkResult, negotiated, adapters,
                   signUpLog, ops, links, picker, device2, CURRENT_ACCOUNT>>

\* signInPopup rejects (the user closes the popup, the provider refuses):
\* account.ts:214-217 logs and rethrows.
SignInPopupFail(t) ==
    /\ link[t].pc = "signInPopup"
    /\ linkEnds(t, "error")
    /\ Commit(Cur)
    /\ UNCHANGED <<proc, watchers, signups, session, negotiated, adapters,
                   signUpLog, ops, links, picker, device2, CURRENT_ACCOUNT>>

\* agent.getProfile rejects: account.ts:214-217 logs and rethrows.
GetProfileFail(t) ==
    /\ link[t].pc = "getProfile"
    /\ linkEnds(t, "error")
    /\ Commit(Cur)
    /\ UNCHANGED <<proc, watchers, signups, session, negotiated, adapters,
                   signUpLog, ops, links, picker, device2, CURRENT_ACCOUNT>>

\* A linking that also takes the provider's avatar as the contact's avatar.
linkChange_copiesAvatar(w, t, did, profile) ==
    LET a == w.handle[t]
        c == w.contactHandle[t]
        w1 == [w EXCEPT !.idDoc[a].atprotoDid = did,
                        !.idDoc[a].atprotoHandle = profile.handle]
    IN  [changed(w1, a) EXCEPT
           !.contactDoc[c].type = "registered",
           !.contactDoc[c].name =
               IF profile.displayName # "" THEN profile.displayName ELSE profile.handle,
           !.contactDoc[c].avatarUrl = profile.avatar,
           !.contactDoc[c].atprotoProfile = profile]

\* The two changes of account.ts:196-211, on the handles that are current
\* when getProfile resolves.
linkChange(w, t, did, profile) ==
    LET a == w.handle[t]
        c == w.contactHandle[t]
        w1 == [w EXCEPT !.idDoc[a].atprotoDid = did,
                        !.idDoc[a].atprotoHandle = profile.handle]
    IN  [changed(w1, a) EXCEPT
           !.contactDoc[c].type = "registered",
           !.contactDoc[c].name =
               IF profile.displayName # "" THEN profile.displayName ELSE profile.handle,
           !.contactDoc[c].atprotoProfile = profile]

\* getProfile resolves (account.ts:194-213 and 220-227): the documents are
\* changed, connectToPSS is called and suspends on getRecord.
GetProfileOk(t, profile) ==
    /\ link[t].pc = "getProfile"
    /\ link' = [link EXCEPT ![t].pc = "getRecord"]
    /\ Commit(linkChange(Cur, t, link[t].sessionDid, profile))
    /\ UNCHANGED <<proc, watchers, signups, session, linkResult, negotiated,
                   adapters, signUpLog, ops, links, picker, device2, CURRENT_ACCOUNT>>

\* ---------------------------------------------------------------- connectToPSS
\* client.init() of the constructor resolves with a restored OAuth session
\* (account.ts:122-131): the session is kept and connectToPSS is called,
\* with no caller to report to.
ClientInit(t, did) ==
    /\ proc[t] = "ready"
    /\ link[t].pc = "idle"
    /\ session[t] = None
    /\ links < MaxLinks
    /\ links' = links + 1
    /\ session' = [session EXCEPT ![t] = did]
    /\ link' = [link EXCEPT ![t] =
           [IdleLink EXCEPT !.pc = "getRecord", !.sessionDid = did, !.current = handle[t]]]
    /\ Commit(Cur)
    /\ UNCHANGED <<proc, watchers, signups, linkResult, negotiated, adapters,
                   signUpLog, ops, picker, device2, CURRENT_ACCOUNT>>

Negotiation(t, outcome) ==
    [NoNegotiation EXCEPT !.outcome = outcome, !.from = link[t].current]

\* A negotiation that opens a channel to the undefined host when the sync
\* record names none.
GetRecordOk_connectsAnyway(t, kind) ==
    /\ link[t].pc = "getRecord"
    /\ IF kind = "host"
       THEN /\ link' = [link EXCEPT ![t].pc = "authenticate", ![t].current = handle[t]]
            /\ UNCHANGED <<linkResult, negotiated, adapters>>
       ELSE /\ linkEnds(t, "ok")
            /\ negotiated' = [negotiated EXCEPT ![t] = Negotiation(t, "silent")]
            /\ adapters' = [adapters EXCEPT ![t] = @ \cup {None}]
    /\ Commit(Cur)
    /\ UNCHANGED <<proc, watchers, signups, session, signUpLog, ops, links, picker, device2, CURRENT_ACCOUNT>>

\* getRecord resolves (account.ts:228-245).  Without success or without a
\* host connectToPSS returns; with a host the authenticate request is sent,
\* carrying the address of the current identity.
GetRecordOk(t, kind) ==
    /\ link[t].pc = "getRecord"
    /\ IF kind = "host"
       THEN /\ link' = [link EXCEPT ![t].pc = "authenticate", ![t].current = handle[t]]
            /\ UNCHANGED <<linkResult, negotiated>>
       ELSE /\ linkEnds(t, "ok")
            /\ negotiated' = [negotiated EXCEPT ![t] = Negotiation(t, "silent")]
    /\ Commit(Cur)
    /\ UNCHANGED <<proc, watchers, signups, session, adapters, signUpLog, ops, links, picker, device2, CURRENT_ACCOUNT>>

\* A catch block that rethrows, as the one of loginWithAtProto does.
pssCatch_rethrows(t) ==
    /\ linkEnds(t, "error")
    /\ negotiated' = [negotiated EXCEPT ![t] = Negotiation(t, "failed")]
    /\ Commit(Cur)
    /\ UNCHANGED <<proc, watchers, signups, session, adapters, signUpLog, ops, links, picker, device2, CURRENT_ACCOUNT>>

\* A rejected await inside the try of connectToPSS (getRecord, fetchHandler,
\* json): account.ts:290-292 catches it and connectToPSS returns normally.
pssCatch(t) ==
    /\ linkEnds(t, "ok")
    /\ negotiated' = [negotiated EXCEPT ![t] = Negotiation(t, "failed")]
    /\ Commit(Cur)
    /\ UNCHANGED <<proc, watchers, signups, session, adapters, signUpLog, ops, links, picker, device2, CURRENT_ACCOUNT>>

GetRecordFail(t) ==
    /\ link[t].pc = "getRecord"
    /\ pssCatch(t)

\* fetchHandler resolves (account.ts:236-246): the body is read next.
AuthenticateOk(t) ==
    /\ link[t].pc = "authenticate"
    /\ link' = [link EXCEPT ![t].pc = "json"]
    /\ Commit(Cur)
    /\ UNCHANGED <<proc, watchers, signups, session, linkResult, negotiated,
                   adapters, signUpLog, ops, links, picker, device2, CURRENT_ACCOUNT>>

AuthenticateFail(t) ==
    /\ link[t].pc = "authenticate"
    /\ pssCatch(t)

JsonFail(t) ==
    /\ link[t].pc = "json"
    /\ pssCatch(t)

\* A match branch that rewrites the whole provider part of the identity.
matchBranch_resetsLink(w, t, token) ==
    changed([w EXCEPT !.idDoc[w.handle[t]].pssJwt = token,
                      !.idDoc[w.handle[t]].atprotoHandle = None],
            w.handle[t])

\* The match branch (account.ts:274-287): pssJwt on the current identity
\* document, then the network adapter.
matchBranch(w, t, token) ==
    changed([w EXCEPT !.idDoc[w.handle[t]].pssJwt = token], w.handle[t])

\* pssResponse.json() resolves with data = {rootDocUrl, token}
\* (account.ts:246-250 and 274-287).
JsonOk(t, rootDocUrl, token) ==
    /\ link[t].pc = "json"
    /\ rootDocUrl \in Ids => idDoc[rootDocUrl].exists
    /\ IF rootDocUrl # handle[t]
       THEN /\ link' = [link EXCEPT
                  ![t].pc = "accountDoc",
                  ![t].current = handle[t],
                  ![t].data = [rootDocUrl |-> rootDocUrl, token |-> token]]
            /\ Commit(Cur)
            /\ UNCHANGED <<linkResult, negotiated, adapters>>
       ELSE /\ linkEnds(t, "ok")
            /\ Commit(matchBranch(Cur, t, token))
            /\ adapters' = [adapters EXCEPT ![t] = @ \cup {token}]
            /\ negotiated' = [negotiated EXCEPT ![t] =
                   [Negotiation(t, "match") EXCEPT
                      !.from = handle[t], !.root = rootDocUrl, !.token = token]]
    /\ UNCHANGED <<proc, watchers, signups, session, signUpLog, ops, links, picker, device2, CURRENT_ACCOUNT>>

\* `await this.#handle.doc()` resolves (account.ts:250-252).
MismatchAccountDoc(t) ==
    /\ link[t].pc = "accountDoc"
    /\ link' = [link EXCEPT ![t].pc = "contactDoc",
                            ![t].accountDoc = View(Cur, t, link[t].current)]
    /\ Commit(Cur)
    /\ UNCHANGED <<proc, watchers, signups, session, linkResult, negotiated,
                   adapters, signUpLog, ops, links, picker, device2, CURRENT_ACCOUNT>>

\* A switch that skips the intermediate logOut().
mismatchSwitch_noLogOut(w, t, i, rootDocUrl) ==
    logIn(w, t, rootDocUrl, "pss")

\* account.ts:257-258: logOut() runs to completion, logIn(rootDocUrl) runs up
\* to its await; neither is awaited.
mismatchSwitch(w, t, i, rootDocUrl) ==
    logIn(logOut(w, t, i), t, rootDocUrl, "pss")

\* account.ts:262-266: the change of the identity document behind
\* this.#handle, as it is when the statement runs.
mismatchAccountChange(w, t, accountDoc, token) ==
    changed([w EXCEPT !.idDoc[w.handle[t]].atprotoDid = accountDoc.atprotoDid,
                      !.idDoc[w.handle[t]].atprotoHandle = accountDoc.atprotoHandle,
                      !.idDoc[w.handle[t]].pssJwt = token],
            w.handle[t])

\* account.ts:269-273: the change of the contact document behind
\* this.#contactHandle, as it is when the statement runs.
mismatchContactChange(w, t, contact) ==
    [w EXCEPT !.contactDoc[w.contactHandle[t]].type = "registered",
              !.contactDoc[w.contactHandle[t]].name = contact.name,
              !.contactDoc[w.contactHandle[t]].atprotoProfile = contact.atprotoProfile]

\* `await contactHandle.doc()` resolves (account.ts:252-287): the rest of the
\* mismatch branch has no await.  Assigning undefined inside a change throws
\* (the change is rolled back) and the catch of account.ts:290 ends the run.
MismatchContactDoc(t) ==
    /\ link[t].pc = "contactDoc"
    /\ FreeIds # {}
    /\ LET accountDoc == link[t].accountDoc
           contact == contactDoc[accountDoc.contactUrl]
           data == link[t].data
           w1 == mismatchSwitch(Cur, t, NewId, data.rootDocUrl)
           w2 == mismatchAccountChange(w1, t, accountDoc, data.token)
           w3 == mismatchContactChange(w2, t, contact)
           throws1 == accountDoc.atprotoDid = None \/ accountDoc.atprotoHandle = None
           throws2 == contact.name = None \/ contact.atprotoProfile = NoProfile
           neg == [outcome |-> "mismatch", from |-> link[t].current,
                   root |-> data.rootDocUrl, token |-> data.token,
                   accountDoc |-> accountDoc, contactDoc |-> contact,
                   temp |-> NewId, thrown |-> throws1 \/ throws2]
       IN  /\ Commit(IF throws1 THEN w1 ELSE IF throws2 THEN w2 ELSE w3)
           /\ adapters' = [adapters EXCEPT ![t] =
                  IF throws1 \/ throws2 THEN @ ELSE @ \cup {data.token}]
           /\ negotiated' = [negotiated EXCEPT ![t] = neg]
    /\ linkEnds(t, "ok")
    /\ UNCHANGED <<proc, watchers, signups, session, signUpLog, ops, links, picker, device2, CURRENT_ACCOUNT>>

\* ---------------------------------------------------------------- picker
\* The picker renders the token of the current account
\* (AccountPicker.tsx:81-83) from the account's address and the form's name.
ShowAccountToken ==
    /\ picker.account # NoUrl
    /\ picker.currentAccountToken = Null
    /\ picker' = [picker EXCEPT !.currentAccountToken =
                      automergeUrlToAccountToken(UrlOf(picker.account), picker.name)]
    /\ UNCHANGED <<pointer, folderDoc, idDoc, contactDoc, fresh, proc, handle, contactHandle,
                   emitted, inbox, logins, watchers, notify, signups, session, link,
                   linkResult, negotiated, adapters, logInFail, signUpLog, ops, links,
                   device2, CURRENT_ACCOUNT>>

\* The user pastes the token shown into the log-in field
\* (AccountPicker.tsx:65-68): the address to log in to is decoded from it.
PasteAccountToken ==
    /\ picker.currentAccountToken \notin {Null, URIError}
    /\ picker.accountTokenToLogin = <<>>
    /\ picker' = [picker EXCEPT
           !.accountTokenToLogin = picker.currentAccountToken,
           !.accountAutomergeUrlToLogin =
               IF picker.currentAccountToken # <<>>
               THEN accountTokenToAutomergeUrl(picker.currentAccountToken)
               ELSE Undefined]
    /\ UNCHANGED <<pointer, folderDoc, idDoc, contactDoc, fresh, proc, handle, contactHandle,
                   emitted, inbox, logins, watchers, notify, signups, session, link,
                   linkResult, negotiated, adapters, logInFail, signUpLog, ops, links,
                   device2, CURRENT_ACCOUNT>>

\* The characters of a contact's name.
NameChars(name) ==
    CASE name = "Ada" -> <<"A", "d", "a">>
      [] name = "Bob" -> <<"B", "o", "b">>
      [] OTHER -> <<>>

\* The picker of tab t, whose form holds the name of the registered contact
\* (AccountPicker.tsx:87-92), renders the token of the current account
\* (AccountPicker.tsx:81-83).
ShowTokenOf(t) ==
    /\ proc[t] = "ready"
    /\ picker.account = NoUrl
    /\ contactDoc[contactHandle[t]].type = "registered"
    /\ LET name == NameChars(contactDoc[contactHandle[t]].name)
       IN  picker' = [picker EXCEPT
               !.account = handle[t],
               !.name = name,
               !.currentAccountToken = automergeUrlToAccountToken(UrlOf(handle[t]), name)]
    /\ UNCHANGED <<pointer, folderDoc, idDoc, contactDoc, fresh, proc, handle, contactHandle,
                   emitted, inbox, logins, watchers, notify, signups, session, link,
                   linkResult, negotiated, adapters, logInFail, signUpLog, ops, links,
                   device2, CURRENT_ACCOUNT>>

\* The address a token decodes to, as an identity of the store.
IdOfUrl(url) ==
    IF \E i \in Ids : UrlOf(i) = url
    THEN CHOOSE i \in Ids : UrlOf(i) = url
    ELSE MalformedUrl

\* useDocument(accountAutomergeUrlToLogin) in the picker of tab t
\* (AccountPicker.tsx:70): what the tab has of that identity document;
\* exists = FALSE stands for undefined.
accountToLogin(t) ==
    IF picker.accountAutomergeUrlToLogin = Undefined
    THEN NoAccountDoc
    ELSE View(Cur, t, IdOfUrl(picker.accountAutomergeUrlToLogin))

\* useDocument(accountToLogin?.contactUrl) (AccountPicker.tsx:71); type
\* "absent" stands for undefined.
contactToLogin(t) ==
    IF accountToLogin(t).contactUrl = NoUrl
    THEN NoContactDoc
    ELSE contactDoc[accountToLogin(t).contactUrl]

\* accountTokenToLoginStatus (AccountPicker.tsx:73-79).
accountTokenToLoginStatus(t) ==
    IF picker.accountTokenToLogin = <<>> THEN "null"
    ELSE IF picker.accountAutomergeUrlToLogin = Undefined THEN "malformed"
    ELSE IF ~accountToLogin(t).exists THEN "not-found"
    ELSE IF contactToLogin(t).type = "absent" THEN "not-found"
    ELSE "valid"

\* isSubmittable on the log-in tab of the picker (AccountPicker.tsx:142-148).
isSubmittable(t) ==
    /\ picker.accountTokenToLogin # <<>>
    /\ accountToLogin(t).contactUrl # NoUrl
    /\ contactToLogin(t).type = "registered"

\* The frame of the second device's actions.
device2Frame ==
    UNCHANGED <<proc, watchers, signups, session, link, linkResult, negotiated,
                adapters, signUpLog, ops, links, CURRENT_ACCOUNT>>

\* getAccount (account.ts:334-371) on the second device, whose localStorage
\* holds no pointer: an account is created and its address stored.
Device2GetAccount ==
    /\ device2.proc = "none"
    /\ FreeIds # {}
    /\ LET w1 == createAccount(Cur2, Device2, NewId)
           w2 == setItem(w1, Device2, NewId)
       IN  Commit2([w2 EXCEPT !.handle[Device2] = NewId, !.contactHandle[Device2] = NewId],
                   "ready")
    /\ UNCHANGED picker
    /\ device2Frame

\* On the second device the token shown on the first is pasted into the
\* log-in field and submitted (AccountPicker.tsx:65-68 and 94-98):
\* logIn(accountAutomergeUrlToLogin), up to its await.
Device2LogIn ==
    /\ device2.proc = "ready"
    /\ picker.currentAccountToken \notin {Null, URIError}
    /\ picker.accountTokenToLogin = <<>>
    /\ LET url == accountTokenToAutomergeUrl(picker.currentAccountToken)
       IN  /\ url # Undefined
           /\ picker' = [picker EXCEPT
                  !.accountTokenToLogin = picker.currentAccountToken,
                  !.accountAutomergeUrlToLogin = url]
           /\ Commit2(logIn(Cur2, Device2, IdOfUrl(url), "ui"), "ready")
    /\ device2Frame

\* `await accountHandle.doc()` of the second device's suspended logIn call
\* resolves with what the document store has delivered to it.
Device2LogInResume ==
    /\ device2.logins # <<>>
    /\ View(Cur2, Device2, device2.logins[1].url).exists
    /\ Commit2(logInResume(Cur2, Device2, 1), "ready")
    /\ UNCHANGED picker
    /\ device2Frame

\* The user types or pastes any text into the log-in field
\* (AccountPicker.tsx:65-68, 233): the address to log in to is decoded from it.
TypeAccountToken(token) ==
    /\ picker.accountTokenToLogin = <<>>
    /\ token # <<>>
    /\ picker' = [picker EXCEPT
           !.accountTokenToLogin = token,
           !.accountAutomergeUrlToLogin = accountTokenToAutomergeUrl(token)]
    /\ UNCHANGED <<pointer, folderDoc, idDoc, contactDoc, fresh, proc, handle, contactHandle,
                   emitted, inbox, logins, watchers, notify, signups, session, link,
                   linkResult, negotiated, adapters, logInFail, signUpLog, ops, links,
                   device2, CURRENT_ACCOUNT>>

\* ---------------------------------------------------------------- system
Next ==
    \/ \E t \in Tabs : GetAccountCall(t)
    \/ \E t \in Tabs : GetAccountLoaded(t)
    \/ \E t \in Tabs : GetAccountReturn(t)
    \/ \E t \in Tabs, did \in Dids : ClientInit(t, did)
    \/ \E t \in Tabs : ShowTokenOf(t)
    \/ Device2GetAccount
    \/ Device2LogIn
    \/ Device2LogInResume
    \/ \E token \in TypedTokens : TypeAccountToken(token)
    \/ ShowAccountToken
    \/ PasteAccountToken
    \/ \E t \in Tabs : GetAccount(t)
    \/ \E i \in Ids : SyncArrive(i)
    \/ \E t \in Tabs, u \in Urls : LogIn(t, u)
    \/ \E t \in Tabs, k \in 1..MaxPending : LogInResume(t, k)
    \/ \E t \in Tabs, k \in 1..MaxPending : LogInUnavailable(t, k)
    \/ \E t \in Tabs : LogOut(t)
    \/ \E t \in Tabs, k \in 1..MaxPending : StorageListener(t, k)
    \/ \E t \in Tabs, i \in Ids : WatcherFire(t, i)
    \/ \E t \in Tabs, name \in Names, withAvatar \in BOOLEAN : SignUp(t, name, withAvatar)
    \/ \E t \in Tabs, k \in 1..MaxPending, a \in AvatarUrls : SignUpUploaded(t, k, a)
    \/ \E t \in Tabs, k \in 1..MaxPending : SignUpUploadFailed(t, k)
    \/ \E t \in Tabs : LoginWithAtProto(t)
    \/ \E t \in Tabs, did \in Dids : SignInPopupOk(t, did)
    \/ \E t \in Tabs : SignInPopupFail(t)
    \/ \E t \in Tabs, profile \in Profiles : GetProfileOk(t, profile)
    \/ \E t \in Tabs : GetProfileFail(t)
    \/ \E t \in Tabs, kind \in {"noSuccess", "noHost", "host"} : GetRecordOk(t, kind)
    \/ \E t \in Tabs : GetRecordFail(t)
    \/ \E t \in Tabs : AuthenticateOk(t)
    \/ \E t \in Tabs : AuthenticateFail(t)
    \/ \E t \in Tabs, u \in Urls, token \in Tokens : JsonOk(t, u, token)
    \/ \E t \in Tabs : JsonFail(t)
    \/ \E t \in Tabs : MismatchAccountDoc(t)
    \/ \E t \in Tabs : MismatchContactDoc(t)

Spec == Init /\ [][Next]_vars

\* The tabs with only logIn and logOut calls: the cross-tab protocol.
NextTabs ==
    \/ \E t \in Tabs : GetAccount(t)
    \/ \E i \in Ids : SyncArrive(i)
    \/ \E t \in Tabs, u \in Urls : LogIn(t, u)
    \/ \E t \in Tabs, k \in 1..MaxPending : LogInResume(t, k)
    \/ \E t \in Tabs, k \in 1..MaxPending : LogInUnavailable(t, k)
    \/ \E t \in Tabs : LogOut(t)
    \/ \E t \in Tabs, k \in 1..MaxPending : StorageListener(t, k)
    \/ \E t \in Tabs, i \in Ids : WatcherFire(t, i)

SpecTabs == Init /\ [][NextTabs]_vars

\* The tabs with only loginWithAtProto calls: linking and negotiation, with
\* the cross-tab protocol reacting to the pointer writes negotiation makes.
NextLink ==
    \/ \E t \in Tabs : GetAccount(t)
    \/ \E i \in Ids : SyncArrive(i)
    \/ \E t \in Tabs, k \in 1..MaxPending : LogInResume(t, k)
    \/ \E t \in Tabs, k \in 1..MaxPending : LogInUnavailable(t, k)
    \/ \E t \in Tabs, k \in 1..MaxPending : StorageListener(t, k)
    \/ \E t \in Tabs, i \in Ids : WatcherFire(t, i)
    \/ \E t \in Tabs : LoginWithAtProto(t)
    \/ \E t \in Tabs, did \in Dids : SignInPopupOk(t, did)
    \/ \E t \in Tabs : SignInPopupFail(t)
    \/ \E t \in Tabs, profile \in Profiles : GetProfileOk(t, profile)
    \/ \E t \in Tabs : GetProfileFail(t)
    \/ \E t \in Tabs, kind \in {"noSuccess", "noHost", "host"} : GetRecordOk(t, kind)
    \/ \E t \in Tabs : GetRecordFail(t)
    \/ \E t \in Tabs : AuthenticateOk(t)
    \/ \E t \in Tabs : AuthenticateFail(t)
    \/ \E t \in Tabs, u \in Urls, token \in Tokens : JsonOk(t, u, token)
    \/ \E t \in Tabs : JsonFail(t)
    \/ \E t \in Tabs : MismatchAccountDoc(t)
    \/ \E t \in Tabs : MismatchContactDoc(t)

SpecLink == Init /\ [][NextLink]_vars

\* The tabs with signUp, logIn and logOut calls.
NextSignUp ==
    \/ \E t \in Tabs : GetAccount(t)
    \/ \E i \in Ids : SyncArrive(i)
    \/ \E t \in Tabs, u \in Urls : LogIn(t, u)
    \/ \E t \in Tabs, k \in 1..MaxPending : LogInResume(t, k)
    \/ \E t \in Tabs, k \in 1..MaxPending : LogInUnavailable(t, k)
    \/ \E t \in Tabs : LogOut(t)
    \/ \E t \in Tabs, k \in 1..MaxPending : StorageListener(t, k)
    \/ \E t \in Tabs, i \in Ids : WatcherFire(t, i)
    \/ \E t \in Tabs, name \in Names, withAvatar \in BOOLEAN : SignUp(t, name, withAvatar)
    \/ \E t \in Tabs, k \in 1..MaxPending, a \in AvatarUrls : SignUpUploaded(t, k, a)
    \/ \E t \in Tabs, k \in 1..MaxPending : SignUpUploadFailed(t, k)

SpecSignUp == Init /\ [][NextSignUp]_vars

\* ---------------------------------------------------------------- fairness
\* The same tabs when every document is already loaded in every tab: each
\* `await accountHandle.doc()` then resolves in the order the awaits were
\* made, so storage events and suspended logIn calls are served first in,
\* first out.
NextFifo ==
    \/ \E t \in Tabs : GetAccount(t)
    \/ \E i \in Ids : SyncArrive(i)
    \/ \E t \in Tabs, u \in Urls : LogIn(t, u)
    \/ \E t \in Tabs : LogInResume(t, 1)
    \/ \E t \in Tabs : LogInUnavailable(t, 1)
    \/ \E t \in Tabs : LogOut(t)
    \/ \E t \in Tabs : StorageListener(t, 1)
    \/ \E t \in Tabs, i \in Ids : WatcherFire(t, i)

\* What the event loop of tab t has to run: dispatched storage events,
\* resolved awaits and due "change" callbacks.
TabStep(t) ==
    \/ StorageListener(t, 1)
    \/ LogInResume(t, 1)
    \/ LogInUnavailable(t, 1)
    \/ \E i \in Ids : WatcherFire(t, i)

\* The event loop of a tab runs what is pending, and the document store
\* delivers what it holds.  Users are not obliged to call anything.
FairnessFifo ==
    /\ \A t \in Tabs : WF_vars(TabStep(t))
    /\ WF_vars(\E i \in Ids : SyncArrive(i))

FairSpecFifo == Init /\ [][NextFifo]_vars /\ FairnessFifo

\* The token codec alone: the picker shows a token and the token is pasted.
NextPicker ==
    \/ ShowAccountToken
    \/ PasteAccountToken

SpecPicker == InitPicker /\ [][NextPicker]_vars

\* Everything that writes a contact document, in one tab: getAccount, logIn,
\* logOut, signUp, linking, and negotiation started by linking or by a
\* restored session.
NextContacts ==
    \/ GetAccount(Device1)
    \/ \E i \in Ids : SyncArrive(i)
    \/ \E u \in Urls : LogIn(Device1, u)
    \/ \E k \in 1..MaxPending : LogInResume(Device1, k)
    \/ \E k \in 1..MaxPending : LogInUnavailable(Device1, k)
    \/ LogOut(Device1)
    \/ \E name \in Names, withAvatar \in BOOLEAN : SignUp(Device1, name, withAvatar)
    \/ \E k \in 1..MaxPending, a \in AvatarUrls : SignUpUploaded(Device1, k, a)
    \/ \E k \in 1..MaxPending : SignUpUploadFailed(Device1, k)
    \/ LoginWithAtProto(Device1)
    \/ \E did \in Dids : ClientInit(Device1, did)
    \/ \E did \in Dids : SignInPopupOk(Device1, did)
    \/ SignInPopupFail(Device1)
    \/ \E profile \in Profiles : GetProfileOk(Device1, profile)
    \/ GetProfileFail(Device1)
    \/ \E kind \in {"noSuccess", "noHost", "host"} : GetRecordOk(Device1, kind)
    \/ GetRecordFail(Device1)
    \/ AuthenticateOk(Device1)
    \/ AuthenticateFail(Device1)
    \/ \E u \in Urls, token \in Tokens : JsonOk(Device1, u, token)
    \/ JsonFail(Device1)
    \/ MismatchAccountDoc(Device1)
    \/ MismatchContactDoc(Device1)

SpecContacts == Init /\ [][NextContacts]_vars

\* The log-in form of a tab's picker: the tab starts, documents arrive, and
\* any text is typed into the field.
NextEligible ==
    \/ GetAccount(Device1)
    \/ \E i \in Ids : SyncArrive(i)
    \/ \E token \in TypedTokens : TypeAccountToken(token)

SpecEligible == Init /\ [][NextEligible]_vars

\* Two devices: the first signs up and shows its token, the second logs in
\* with it; the document store delivers when it does.
NextDevices ==
    \/ GetAccount(Device1)
    \/ \E i \in Ids : SyncArrive(i)
    \/ \E name \in Names, withAvatar \in BOOLEAN : SignUp(Device1, name, withAvatar)
    \/ \E k \in 1..MaxPending, a \in AvatarUrls : SignUpUploaded(Device1, k, a)
    \/ \E k \in 1..MaxPending : SignUpUploadFailed(Device1, k)
    \/ ShowTokenOf(Device1)
    \/ Device2GetAccount
    \/ Device2LogIn
    \/ Device2LogInResume

SpecDevices == Init /\ [][NextDevices]_vars

\* The decoder alone: any text is typed into the log-in field of a picker.
NextDecode ==
    \E token \in TypedTokens : TypeAccountToken(token)

SpecDecode == Init /\ [][NextDecode]_vars

\* ---------------------------------------------------------------- properties
\* Nothing is left to run in any tab: no storage event, no suspended logIn,
\* no due "change" callback, no linking frame.
Quiescent ==
    \A t \in Tabs :
        /\ inbox[t] = <<>>
        /\ logins[t] = <<>>
        /\ notify[t] = {}
        /\ link[t].pc = "idle"

\* The contact document an identity document refers to.
ContactOf(u) == IF u \in Ids THEN idDoc[u].contactUrl ELSE NoUrl

\* Tab t's pointer, identity handle and contact handle designate identity u.
Designates(t, u) ==
    /\ pointer = u
    /\ handle[t] = u
    /\ contactHandle[t] = ContactOf(u)

\* C1: after a mismatch negotiation from identity A (linked to an external
\* identity) to a resolvable canonical root B, once everything has finished,
\* the active pointer and handles are B, B's identity document carries A's
\* atprotoDid / atprotoHandle and the issued token, and B's contact carries
\* the name / atprotoProfile of A's contact.
C1_MismatchEndState ==
    \A t \in Tabs :
        LET n == negotiated[t]
            B == n.root
        IN  ( /\ n.outcome = "mismatch"
              /\ B \in Ids
              /\ n.accountDoc.atprotoDid # None
              /\ Quiescent )
            => /\ Designates(t, B)
               /\ idDoc[B].atprotoDid = n.accountDoc.atprotoDid
               /\ idDoc[B].atprotoHandle = n.accountDoc.atprotoHandle
               /\ idDoc[B].pssJwt = n.token
               /\ contactDoc[ContactOf(B)].name = n.contactDoc.name
               /\ contactDoc[ContactOf(B)].atprotoProfile = n.contactDoc.atprotoProfile

\* Two tabs have each written a different resolvable identity to the pointer,
\* and each tab's storage event is still to be handled by the other.
Race ==
    \E a \in Ids, b \in Ids :
        /\ a # b
        /\ idDoc[a].exists /\ idDoc[b].exists
        /\ fresh[a] = 0 /\ fresh[b] = 0
        /\ inbox[1] = <<b>> /\ inbox[2] = <<a>>
        /\ \E k \in 1..Len(logins[1]) : logins[1][k] = [url |-> a, src |-> "ui"]
        /\ \E k \in 1..Len(logins[2]) : logins[2][k] = [url |-> b, src |-> "ui"]

\* Every tab's active identity is the persisted pointer and nothing is left
\* to run.
Converged ==
    /\ Quiescent
    /\ \A t \in Tabs : proc[t] = "ready" => Designates(t, pointer)

\* C2: when two tabs log in to different identities in the same race window,
\* the system reaches a quiescent state where every tab's active identity is
\* the persisted pointer; the coordinators do not rewrite the pointer back and
\* forth for ever.
C2_Convergence == Race ~> Converged

\* C3: a logIn call whose target is malformed or never resolves writes
\* nothing: the pointer and both cached handles keep their values.
C3_NoPartialWrites ==
    [][\A t \in Tabs, u \in {MissingUrl, MalformedUrl} :
          LogIn(t, u) => UNCHANGED <<pointer, handle, contactHandle>>]_vars

\* The logIn calls made by the cross-tab coordinator: by the storage
\* listener itself or by a "change" callback it registered.
CoordinatorSrc == {"storage", "watcher"}

\* C6: the coordinator calls logIn(X) only when X's identity document is
\* resolved in this tab with its contactUrl populated, and no tab ever has an
\* active identity whose contactUrl is missing.
C6_NoPartialIdentityActive ==
    \A t \in Tabs :
        /\ \A k \in 1..Len(logins[t]) :
               logins[t][k].src \in CoordinatorSrc
                   => View(Cur, t, logins[t][k].url).contactUrl # NoUrl
        /\ proc[t] = "ready"
               => /\ View(Cur, t, handle[t]).contactUrl # NoUrl
                  /\ contactHandle[t] = View(Cur, t, handle[t]).contactUrl

\* A "change" callback registered for a not yet initialised identity has
\* called logIn, and that logIn has made the identity active.
C6_Witness ==
    \E t \in Tabs :
        /\ emitted[t].by = "watcher"
        /\ handle[t] = emitted[t].target
        /\ \E k \in 1..Len(watchers[t]) : watchers[t][k] = handle[t]

\* C7: when another process has written a valid, fully initialised identity
\* address X to the pointer key, this tab's identity handle and contact handle
\* eventually are X's, with a change notification emitted for it.
C7_CrossTabSwitch ==
    \A t \in Tabs, x \in Ids :
        ( /\ \E k \in 1..Len(inbox[t]) : inbox[t][k] = x
          /\ View(Cur, t, x).contactUrl # NoUrl )
        ~> ( /\ handle[t] = x
             /\ contactHandle[t] = ContactOf(x)
             /\ emitted[t].by = "storage"
             /\ emitted[t].target = x
             /\ emitted[t].handle = x )

\* The storage listener has switched a tab to the address another tab wrote.
C7_Witness ==
    \E t \in Tabs :
        /\ emitted[t].by = "storage"
        /\ handle[t] = emitted[t].target
        /\ handle[t] = pointer
        /\ contactHandle[t] = ContactOf(handle[t])

\* The sources of a logIn call.
LogInSrc == {"ui", "storage", "watcher", "pss"}

\* C8: a successful logIn(target) replaces the active identity atomically.
\* While a single tab runs, its pointer, identity handle and contact handle
\* never designate different identities, and logIn emits "change" only when
\* all three designate its target.
C8_AtomicSwitch ==
    \A t \in Tabs :
        /\ ( /\ proc[t] = "ready"
             /\ \A s \in Tabs \ {t} : proc[s] = "none"
             /\ pointer \in Ids )
           => Designates(t, pointer)
        /\ emitted[t].by \in LogInSrc
           => /\ emitted[t].ptr = emitted[t].target
              /\ emitted[t].handle = emitted[t].target
              /\ emitted[t].contact = ContactOf(emitted[t].target)

BeforeFirstChange(t) ==
    \/ LoginWithAtProto(t)
    \/ \E did \in Dids : SignInPopupOk(t, did)
    \/ SignInPopupFail(t)
    \/ GetProfileFail(t)

\* C9: a loginWithAtProto call that fails during provider authentication or
\* profile fetch is reported to its caller and has written nothing: none of
\* its steps changes a document, the pointer or the cached handles.
C9_FailedLinkWritesNothing ==
    [][\A t \in Tabs :
          /\ BeforeFirstChange(t)
                => UNCHANGED <<idDoc, contactDoc, pointer, handle, contactHandle>>
          /\ (SignInPopupFail(t) \/ GetProfileFail(t))
                => linkResult'[t] = "error"]_vars

\* A call failed at the profile fetch, after the provider had authenticated.
C9_Witness ==
    \E t \in Tabs :
        /\ linkResult[t] = "error"
        /\ session[t] # None
        /\ link[t].pc = "idle"

\* A failure inside connectToPSS: a rejected getRecord, authenticate request
\* or body parse, or a change that throws in the mismatch branch.
NegotiationFails(t) ==
    \/ GetRecordFail(t)
    \/ AuthenticateFail(t)
    \/ JsonFail(t)
    \/ MismatchContactDoc(t) /\ negotiated'[t].thrown

\* C10: any failure during negotiation is swallowed: the loginWithAtProto
\* call that ran it completes successfully.
C10_NegotiationFailureSwallowed ==
    [][\A t \in Tabs :
          (NegotiationFails(t) /\ link[t].viaLink) => linkResult'[t] = "ok"]_vars

\* A negotiation failed and the call around it reported success.
C10_Witness ==
    \E t \in Tabs :
        /\ negotiated[t].outcome = "failed"
        /\ linkResult[t] = "ok"
        /\ idDoc[handle[t]].atprotoDid # None

\* C4: token round trip.  For every valid document identifier and every
\* label, decoding the token built from them gives the address of the
\* document.
C4_RoundTrip ==
    picker.accountTokenToLogin # <<>>
        => picker.accountAutomergeUrlToLogin = UrlOf(picker.account)

\* C11: when logOut() completes, the active identity document is one that
\* did not exist before, its contactUrl and rootFolderUrl reference documents
\* that exist in the store, the active contact is Anonymous, the persisted
\* pointer is the new identity's address, and "change" has been emitted.
C11_LogOutPostState ==
    [][\A t \in Tabs :
          LogOut(t) =>
              LET i == handle'[t]
              IN  /\ i \in Ids
                  /\ ~idDoc[i].exists
                  /\ idDoc'[i].exists
                  /\ idDoc'[i].contactUrl \in Ids
                  /\ contactHandle'[t] = idDoc'[i].contactUrl
                  /\ contactDoc'[contactHandle'[t]].type = "anonymous"
                  /\ idDoc'[i].rootFolderUrl \in Ids
                  /\ folderDoc'[idDoc'[i].rootFolderUrl].exists
                  /\ pointer' = i
                  /\ emitted'[t] = [by |-> "logOut", target |-> i, ptr |-> i,
                                    handle |-> i, contact |-> contactHandle'[t]]]_vars

\* A tab that was on the registered identity has logged out and is now on a
\* new anonymous one.
C11_Witness ==
    \E t \in Tabs :
        /\ emitted[t].by = "logOut"
        /\ handle[t] = emitted[t].target
        /\ pointer = handle[t]
        /\ handle[t] # 1
        /\ contactDoc[contactHandle[t]].type = "anonymous"
        /\ contactDoc[1].type = "registered"

\* The state w after tab t calls logIn(u) and that call's await resolves.
AfterLogIn(w, t, u) ==
    LET w1 == logIn(w, t, u, "ui")
    IN  logInResume(w1, t, Len(w1.logins[t]))

\* C12: logOut() leaves the identity it leaves behind intact: the identity
\* document that was active, its contact document and its root folder keep
\* every field, and in the state logOut leaves, a logIn with the previous
\* address does not reject and makes the previous identity active again.
C12_LogOutKeepsPrevious ==
    [][\A t \in Tabs :
          LogOut(t) =>
              LET p == handle[t]
                  c == idDoc[p].contactUrl
                  back == AfterLogIn(Cur', t, p)
              IN  /\ idDoc'[p] = idDoc[p]
                  /\ idDoc[p].exists
                  /\ contactDoc'[c] = contactDoc[c]
                  /\ contactDoc[c].type # "absent"
                  /\ folderDoc'[idDoc[p].rootFolderUrl] = folderDoc[idDoc[p].rootFolderUrl]
                  /\ handle'[t] # p
                  /\ back.handle[t] = p
                  /\ back.contactHandle[t] = c
                  /\ back.pointer = p
                  /\ back.logInFail[t] = logInFail'[t]
                  /\ back.emitted[t].by = "ui" /\ back.emitted[t].handle = p]_vars

\* A tab has logged out of the registered identity and then logged in to it
\* again: it is active, registered as before, beside the identity logOut made.
C12_Witness ==
    \E t \in Tabs :
        /\ emitted[t] = [by |-> "ui", target |-> 1, ptr |-> 1, handle |-> 1, contact |-> 1]
        /\ handle[t] = 1
        /\ contactDoc[1].type = "registered"
        /\ \E i \in Ids : i # 1 /\ idDoc[i].exists /\ fresh[i] = t

\* The steps of the mismatch branch of connectToPSS run by tab t.
MismatchStep(t) ==
    \/ \E rootDocUrl \in Urls, token \in Tokens :
           JsonOk(t, rootDocUrl, token) /\ rootDocUrl # handle[t]
    \/ MismatchAccountDoc(t)
    \/ MismatchContactDoc(t)

\* The identity A a mismatch step of tab t negotiates from.
MismatchFrom(t) == IF link[t].pc = "json" THEN handle[t] ELSE link[t].current

\* C13: during a mismatch negotiation from identity A, no step of the
\* negotiation writes a field of A's identity document or of A's contact
\* document, and A resolves afterwards as it did before.
C13_MismatchLeavesSource ==
    [][\A t \in Tabs :
          MismatchStep(t) =>
              LET A == MismatchFrom(t)
              IN  /\ idDoc[A].exists
                  /\ idDoc'[A] = idDoc[A]
                  /\ contactDoc'[idDoc[A].contactUrl] = contactDoc[idDoc[A].contactUrl]
                  /\ View(Cur', t, A) = View(Cur, t, A)]_vars

\* A mismatch negotiation from a linked identity has run all its changes
\* and the identity it started from still has no token.
C13_Witness ==
    \E t \in Tabs :
        LET n == negotiated[t]
        IN  /\ n.outcome = "mismatch"
            /\ ~n.thrown
            /\ n.accountDoc.atprotoDid # None
            /\ idDoc[n.from] = n.accountDoc
            /\ contactDoc[idDoc[n.from].contactUrl] = n.contactDoc
            /\ idDoc[n.temp].pssJwt = n.token

\* A label as encodeURIComponent writes one: unreserved characters and
\* %XX escapes only.
HexDigits == {"a", "D", "1"}
RECURSIVE IsPercentEncoded(_)
IsPercentEncoded(label) ==
    IF label = <<>> THEN TRUE
    ELSE IF Head(label) = "%"
         THEN /\ Len(label) >= 3
              /\ label[2] \in HexDigits /\ label[3] \in HexDigits
              /\ IsPercentEncoded(Drop(label, 3))
         ELSE Head(label) # "/" /\ IsPercentEncoded(Tail(label))

\* A label the decoder's pattern accepts: a non-empty run without "/".
NonEmptyNoSlash(label) ==
    /\ label # <<>>
    /\ \A k \in 1..Len(label) : label[k] # "/"

\* token is account:<label>/<documentId of i>, the label percent-encoded when
\* strict and any non-empty run without "/" otherwise.
TokenOf(token, i, strict) ==
    /\ StartsWith(token, ACCOUNT_PREFIX)
    /\ LET rest == Drop(token, Len(ACCOUNT_PREFIX))
       IN  \E k \in 1..Len(rest) :
               /\ rest[k] = "/"
               /\ IF strict
                  THEN IsPercentEncoded(SubSeq(rest, 1, k - 1))
                  ELSE NonEmptyNoSlash(SubSeq(rest, 1, k - 1))
               /\ Drop(rest, k) = DocumentId(i)

DecodeOfToken(i, l) ==
    LET token == automergeUrlToAccountToken(UrlOf(i), l)
    IN  IF token = URIError THEN URIError ELSE accountTokenToAutomergeUrl(token)

\* C15: label independence.  For a valid identifier and any two labels, the
\* token built with one label decodes to what the token built with the other
\* label decodes to: here, what the picker decoded from the token it showed
\* is what every other label would have given.
C15_LabelIndependence ==
    ( /\ picker.accountTokenToLogin # <<>>
      /\ picker.accountTokenToLogin = picker.currentAccountToken )
        => \A l \in Labels :
               DecodeOfToken(picker.account, l) = picker.accountAutomergeUrlToLogin

C17_RegisteredStays ==
    [][\A c \in Ids :
          contactDoc[c].type = "registered" => contactDoc'[c].type = "registered"]_vars

\* A contact registered by signUp has since been written again by a
\* negotiation's mismatch branch, next to a contact logOut created.
C17_Witness ==
    /\ \E c \in Ids :
           /\ contactDoc[c].type = "registered"
           /\ contactDoc[c].atprotoProfile # NoProfile
           /\ signUpLog[Device1].contact = c
           /\ signUpLog[Device1].outcome = "ok"
    /\ \E c \in Ids : contactDoc[c].type = "anonymous"
    /\ negotiated[Device1].outcome = "mismatch"

C19_SubmitEligibility ==
    LET t == Device1
    IN  /\ isSubmittable(t)
            => /\ picker.accountAutomergeUrlToLogin # Undefined
               /\ accountToLogin(t).exists
               /\ contactToLogin(t).type = "registered"
        /\ contactToLogin(t).type = "anonymous"
            => /\ ~isSubmittable(t)
               /\ accountTokenToLoginStatus(t) # "valid"

\* The tabs with logOut calls and loginWithAtProto calls: identities are
\* replaced by one tab while another follows the pointer, and identity
\* documents are changed by linking after they were created.
NextWatch ==
    \/ NextLink
    \/ \E t \in Tabs : LogOut(t)

SpecWatch == Init /\ [][NextWatch]_vars

\* C20: the "change" callback the storage listener registers on a not yet
\* initialized identity X is one-shot.  With a single callback registered on
\* X in tab t (one foreign pointer change), once a logIn(X) invoked by that
\* callback has completed, a later "change" event of X's identity document
\* does not make the callback invoke logIn(X) again.
C20_WatcherOneShot ==
    [][\A t \in Tabs, i \in Ids :
          (/\ WatcherFire(t, i)
           /\ Cardinality({k \in 1..Len(watchers[t]) : watchers[t][k] = i}) = 1
           /\ emitted[t].by = "watcher"
           /\ emitted[t].target = i)
          => logins'[t] = logins[t]]_vars

\* The provider fields of an identity document and its contact document.
ProviderFields(w, i) ==
    [atprotoDid |-> w.idDoc[i].atprotoDid,
     atprotoHandle |-> w.idDoc[i].atprotoHandle,
     pssJwt |-> w.idDoc[i].pssJwt,
     contact |-> w.contactDoc[i]]

\* C21: when the mismatch branch runs with a canonical root that cannot be
\* resolved, the active identity is not corrupted: the persisted pointer and
\* both cached handles still designate the identity A that was active before,
\* and no provider or contact field of any other identity is written.
C21_UnresolvableRootKeepsIdentity ==
    [][\A t \in Tabs :
          (/\ MismatchContactDoc(t)
           /\ link[t].data.rootDocUrl \notin Ids
           /\ Designates(t, link[t].current))
          => LET A == link[t].current
             IN  /\ pointer' = A
                 /\ handle'[t] = A
                 /\ contactHandle'[t] = idDoc[A].contactUrl
                 /\ \A i \in Ids \ {A} :
                        ProviderFields(Cur', i) = ProviderFields(Cur, i)]_vars

\* C22: single-process pointer consistency.  In a tab that is the only one
\* running (no other process writes the key), whenever none of its logIn
\* calls is suspended, none has been rejected and no event is left for
\* it to handle, its cached identity handle is the persisted pointer; in
\* particular after two overlapping logIn calls, in whatever order their
\* document resolutions complete.
C22_PointerConsistency ==
    \A t \in Tabs :
        (/\ proc[t] = "ready"
         /\ \A s \in Tabs \ {t} : proc[s] = "none"
         /\ logins[t] = <<>>
         /\ inbox[t] = <<>>
         /\ notify[t] = {}
         /\ logInFail[t] = NoFail)
        => handle[t] = pointer

\* C23: in the match branch (the server's rootDocUrl is the address of the
\* current identity) negotiation writes only pssJwt, set to the issued token,
\* on the current identity document; the pointer, the cached handles, the
\* contact documents and every other identity field are unchanged.
C23_MatchWritesOnlyToken ==
    [][\A t \in Tabs, token \in Tokens :
          (link[t].pc = "json" /\ JsonOk(t, handle[t], token))
          => /\ idDoc' = [idDoc EXCEPT ![handle[t]].pssJwt = token]
             /\ UNCHANGED <<pointer, handle, contactHandle, contactDoc, folderDoc>>]_vars

\* A match negotiation has ended on a linked identity, which carries the
\* issued token next to the provider fields linking gave it.
C23_Witness ==
    \E t \in Tabs :
        /\ negotiated[t].outcome = "match"
        /\ negotiated[t].root = handle[t]
        /\ idDoc[handle[t]].pssJwt = negotiated[t].token
        /\ idDoc[handle[t]].atprotoDid # None
        /\ idDoc[handle[t]].atprotoHandle # None

\* getRecord answers without a sync record or with a record that has no
\* host field, or rejects because the provider has no such record.
NoSyncHost(t) ==
    \/ \E kind \in {"noSuccess", "noHost"} : GetRecordOk(t, kind)
    \/ GetRecordFail(t)

\* C24: when the provider has no sync record for the external identity, or
\* the record has no host field, negotiation ends without error, without
\* writing any document field, without changing the pointer or the cached
\* handles, and without attaching a network channel.
C24_NoHostEndsSilently ==
    [][\A t \in Tabs :
          NoSyncHost(t)
          => /\ link'[t].pc = "idle"
             /\ link[t].viaLink => linkResult'[t] = "ok"
             /\ UNCHANGED <<idDoc, contactDoc, folderDoc, pointer, handle,
                            contactHandle, adapters>>]_vars

\* A linking call has returned normally after a negotiation that found no
\* host: the identity is linked, has no token, and no channel is attached.
C24_Witness ==
    \E t \in Tabs :
        /\ negotiated[t].outcome = "silent"
        /\ linkResult[t] = "ok"
        /\ link[t].pc = "idle"
        /\ idDoc[handle[t]].atprotoDid # None
        /\ idDoc[handle[t]].pssJwt = None
        /\ adapters[t] = {}

\* C25: a successful provider link writes exactly atprotoDid and
\* atprotoHandle on the active identity document, and type = registered,
\* name (the profile's displayName, or the handle when displayName is empty)
\* and atprotoProfile on the active contact document; every other field, in
\* particular the contact's avatarUrl and the identity's contactUrl and
\* rootFolderUrl, keeps its value, as do all other documents.
C25_LinkWrites ==
    [][\A t \in Tabs, profile \in Profiles :
          GetProfileOk(t, profile)
          => LET a == handle[t]
                 c == contactHandle[t]
             IN  /\ idDoc' = [idDoc EXCEPT
                        ![a].atprotoDid = link[t].sessionDid,
                        ![a].atprotoHandle = profile.handle]
                 /\ contactDoc' = [contactDoc EXCEPT
                        ![c].type = "registered",
                        ![c].name = IF profile.displayName = ""
                                    THEN profile.handle
                                    ELSE profile.displayName,
                        ![c].atprotoProfile = profile]
                 /\ UNCHANGED <<folderDoc, pointer, handle, contactHandle>>]_vars

\* A contact that had an avatar from signUp has been linked with a profile
\* whose displayName is empty: it has the handle as its name and keeps the
\* avatar it had.
C25_Witness ==
    \E t \in Tabs :
        LET a == handle[t]
            c == contactHandle[t]
        IN  /\ proc[t] = "ready"
            /\ link[t].pc = "getRecord"
            /\ idDoc[a].atprotoDid \in Dids
            /\ idDoc[a].contactUrl = c
            /\ contactDoc[c].avatarUrl \in AvatarUrls
            /\ contactDoc[c].atprotoProfile \in Profiles
            /\ contactDoc[c].atprotoProfile.displayName = ""
            /\ contactDoc[c].name = contactDoc[c].atprotoProfile.handle

\* One tab that links an external identity and negotiates.
NextNegotiate ==
    \/ GetAccount(Device1)
    \/ \E i \in Ids : SyncArrive(i)
    \/ \E k \in 1..MaxPending : LogInResume(Device1, k)
    \/ \E k \in 1..MaxPending : LogInUnavailable(Device1, k)
    \/ LoginWithAtProto(Device1)
    \/ \E did \in Dids : SignInPopupOk(Device1, did)
    \/ SignInPopupFail(Device1)
    \/ \E profile \in Profiles : GetProfileOk(Device1, profile)
    \/ GetProfileFail(Device1)
    \/ \E kind \in {"noSuccess", "noHost", "host"} : GetRecordOk(Device1, kind)
    \/ GetRecordFail(Device1)
    \/ AuthenticateOk(Device1)
    \/ AuthenticateFail(Device1)
    \/ \E u \in Urls, token \in Tokens : JsonOk(Device1, u, token)
    \/ JsonFail(Device1)
    \/ MismatchAccountDoc(Device1)
    \/ MismatchContactDoc(Device1)

\* What is bound to happen.  The event loop of the tab runs every
\* continuation whose await has resolved, and local documents load; the
\* provider answers the popup and the profile request, and a response that
\* has arrived has a body.  connectToPSS arms no timer and passes no abort
\* signal to getRecord or to fetchHandler (account.ts:223-244), so nothing
\* in the program makes those two awaits end: their responses are left to
\* the network, without fairness.
FairnessNegotiate ==
    /\ WF_vars(\E i \in Ids : SyncArrive(i))
    /\ WF_vars(\E k \in 1..MaxPending :
                   LogInResume(Device1, k) \/ LogInUnavailable(Device1, k))
    /\ WF_vars(MismatchAccountDoc(Device1))
    /\ WF_vars(MismatchContactDoc(Device1))
    /\ WF_vars(SignInPopupFail(Device1) \/ \E did \in Dids : SignInPopupOk(Device1, did))
    /\ WF_vars(GetProfileFail(Device1)
                   \/ \E profile \in Profiles : GetProfileOk(Device1, profile))
    /\ WF_vars(JsonFail(Device1)
                   \/ \E u \in Urls, token \in Tokens : JsonOk(Device1, u, token))

FairSpecNegotiate == Init /\ [][NextNegotiate]_vars /\ FairnessNegotiate

\* C26: negotiation terminates.  A negotiation waiting for the answer of the
\* sync endpoint discovery or of the authenticate request ends after a
\* bounded wait even when no answer ever comes, and the call around it
\* completes.
C26_NegotiationTerminates ==
    \A t \in Tabs :
        (link[t].pc \in {"getRecord", "authenticate"}) ~> (link[t].pc = "idle")

\* C27: every negotiation that got the answer of the authenticate request
\* attaches a channel carrying the issued token, in the match branch and in
\* the mismatch branch alike, and no step removes an attached channel.
C27_ChannelAttached ==
    [][\A t \in Tabs :
          /\ adapters[t] \subseteq adapters'[t]
          /\ \A token \in Tokens :
                 (link[t].pc = "json" /\ JsonOk(t, handle[t], token))
                     => token \in adapters'[t]
          /\ MismatchContactDoc(t) => link[t].data.token \in adapters'[t]]_vars

\* C28: the throwaway anonymous identity the mismatch branch creates with
\* its intermediate logOut() receives no provider or profile data: when the
\* branch has run, its identity document has no atprotoDid, atprotoHandle or
\* pssJwt and its contact document is still anonymous.
C28_ThrowawayStaysEmpty ==
    [][\A t \in Tabs :
          MismatchContactDoc(t)
          => LET temp == negotiated'[t].temp
             IN  /\ idDoc'[temp].exists
                 /\ idDoc'[temp].atprotoDid = None
                 /\ idDoc'[temp].atprotoHandle = None
                 /\ idDoc'[temp].pssJwt = None
                 /\ contactDoc'[idDoc'[temp].contactUrl].type = "anonymous"]_vars

\* C29: a linking call writes only to the documents of the identity that was
\* active when it was invoked (currentAccountUrl, account.ts:185): when its
\* profile fetch resolves, the identity and contact documents of every other
\* identity, in particular of one the tab has switched to meanwhile, are
\* left as they are.
C29_WritesOnlyInvokedIdentity ==
    [][\A t \in Tabs, profile \in Profiles :
          GetProfileOk(t, profile)
          => \A i \in Ids \ {link[t].current} :
                 idDoc[i].exists
                 => /\ idDoc'[i] = idDoc[i]
                    /\ contactDoc'[ContactOf(i)] = contactDoc[ContactOf(i)]]_vars

\* C30: handle pair consistency.  In every state of a started tab the cached
\* contact handle is the contact document named by the contactUrl of the
\* cached identity document, whatever logIn, logOut, cross-tab events and
\* negotiations have interleaved.
C30_HandlePair ==
    \A t \in Tabs :
        proc[t] = "ready"
        => /\ handle[t] \in Ids
           /\ idDoc[handle[t]].exists
           /\ contactHandle[t] = idDoc[handle[t]].contactUrl

\* A tab was switched by a logIn it did not start from its own interface,
\* the pointer has moved on to another identity since, and the tab's two
\* handles are those of the identity it was switched to.
C30_Witness ==
    \E t \in Tabs :
        /\ proc[t] = "ready"
        /\ emitted[t].by \in {"storage", "watcher", "pss"}
        /\ handle[t] = emitted[t].target
        /\ pointer \in Ids
        /\ pointer # handle[t]
        /\ contactHandle[t] = idDoc[handle[t]].contactUrl
        /\ contactHandle[t] # idDoc[pointer].contactUrl

\* The tabs of a browser start, each making several getAccount calls that
\* overlap, while the document store delivers.
NextSingleton ==
    \/ \E t \in Tabs : GetAccountCall(t)
    \/ \E t \in Tabs : GetAccountLoaded(t)
    \/ \E t \in Tabs : GetAccountReturn(t)
    \/ \E i \in Ids : SyncArrive(i)

SpecSingleton == Init /\ [][NextSingleton]_vars

\* C31: getAccount is a per-process singleton.  However the getAccount calls
\* of a tab overlap, at most one Account instance is constructed, at most one
\* identity is created, the pointer is written at most once, and every call
\* that returns returns the same instance, the one CURRENT_ACCOUNT holds.
C31_Singleton ==
    \A t \in Tabs :
        LET g == CURRENT_ACCOUNT[t]
        IN  /\ g.built <= 1
            /\ g.created <= 1
            /\ g.writes <= 1
            /\ Cardinality(g.returned) <= 1
            /\ g.returned \subseteq {g.instance}

\* Both ways of starting have happened with overlapping calls: one tab created
\* its account and another loaded the stored one while several of its calls
\* were suspended, and every call of both has returned the tab's one instance.
C31_Witness ==
    \E t \in Tabs, s \in Tabs :
        /\ CURRENT_ACCOUNT[t].created = 1
        /\ CURRENT_ACCOUNT[s].created = 0
        /\ \A r \in {s, t} :
               /\ CURRENT_ACCOUNT[r].calls = MaxCalls
               /\ CURRENT_ACCOUNT[r].waiting = 0
               /\ CURRENT_ACCOUNT[r].built = 1
               /\ CURRENT_ACCOUNT[r].returned = {1}
               /\ proc[r] = "ready"
        /\ handle[s] = handle[t]

====
